---- MODULE Spec2Model ----
(***************************************************************************)
(* A model of mobicat_python_utils/utils.py: the mobility reducers, the    *)
(* dataset catalog builder, the catalog-wide aggregation and export, and   *)
(* the day filter.  Python strings are sequences of one-character strings, *)
(* a DataFrame is a record of its column names and its rows, and a raised  *)
(* exception is a DataFrame-shaped value whose err field names it.         *)
(***************************************************************************)
EXTENDS Integers, Sequences, FiniteSets, TLC

VARIABLES pc,                 \* which call has returned
          result,             \* the DataFrame returned by the call named by pc
          platform,           \* "nt" or "posix": which os.path the interpreter has
          mobility_df,        \* argument of the mobility reducers
          result2,            \* what the reducer returns when given result
          root,               \* all_datasets_directory
          tree,               \* the directory tree under root
          datasets_names,     \* value returned by get_datasets_names
          files,              \* the csv files, by path
          datasets_names_df,  \* the "path" column given to full_datasets_groupby
          by,                 \* grouping keys of full_datasets_groupby
          loaded,             \* the paths handed to pd.read_csv, in order
          datasets_paths_df,  \* the "path" column given to full_datasets_filter_zeros
          test_data,          \* the files written under .\test-data, by path
          day_df,             \* argument of filter_by_day
          start,              \* lower bound of filter_by_day
          end                 \* upper bound of filter_by_day

reducerVars == <<mobility_df, result2>>
catalogVars == <<root, tree, datasets_names>>
fileVars    == <<files, datasets_names_df, by, loaded, datasets_paths_df, test_data>>
filterVars  == <<day_df, start, end>>

vars == <<pc, result, platform, reducerVars, catalogVars, fileVars, filterVars>>

----------------------------------------------------------------------------
(* Python str: comparison is by code point, character by character.        *)

CodePoints ==
    << "-", ".", "/", "0", "1", "2", "3", "4", "5", "6", "7", "8", "9",
       "A", "B", "C", "D", "\\", "_",
       "a", "b", "c", "d", "e", "f", "g", "h", "i", "j", "k", "l", "m",
       "n", "o", "p", "q", "r", "s", "t", "u", "v", "w", "x", "y", "z" >>

Ord(c) == CHOOSE i \in DOMAIN CodePoints : CodePoints[i] = c

RECURSIVE StrLess(_, _)
StrLess(a, b) ==
    IF a = <<>> THEN b # <<>>
    ELSE IF b = <<>> THEN FALSE
    ELSE IF Head(a) = Head(b) THEN StrLess(Tail(a), Tail(b))
    ELSE Ord(Head(a)) < Ord(Head(b))

Range(s) == { s[i] : i \in DOMAIN s }

\* Tuples of strings compare lexicographically, component by component.
RECURSIVE KeyLess(_, _)
KeyLess(k1, k2) ==
    IF k1 = <<>> THEN k2 # <<>>
    ELSE IF k2 = <<>> THEN FALSE
    ELSE IF Head(k1) = Head(k2) THEN KeyLess(Tail(k1), Tail(k2))
    ELSE StrLess(Head(k1), Head(k2))

RECURSIVE SortKeys(_)
SortKeys(S) ==
    IF S = {} THEN <<>>
    ELSE LET m == CHOOSE x \in S : \A y \in S \ {x} : KeyLess(x, y)
         IN  <<m>> \o SortKeys(S \ {m})

\* The pair left as it comes, origin first.
UnsortedPair(a, b) == <<a, b>>

\* sorted([a, b]) on two strings; sorted is stable, equal strings keep order.
sorted2(a, b) == IF StrLess(b, a) THEN <<b, a>> ELSE <<a, b>>

----------------------------------------------------------------------------
(* pandas.DataFrame                                                        *)

DataFrame(columns, rows) == [err |-> "", columns |-> columns, rows |-> rows]
Raise(e) == [err |-> e, columns |-> <<>>, rows |-> <<>>]

\* The value of a variable that the specification at hand does not use.
Unused == <<>>
ReducersUnused == mobility_df = Unused /\ result2 = Unused
CatalogUnused  == root = Unused /\ tree = Unused /\ datasets_names = Unused
FilesUnused    == /\ files = Unused /\ datasets_names_df = Unused /\ by = Unused
                  /\ loaded = Unused /\ datasets_paths_df = Unused /\ test_data = Unused
FilterUnused   == day_df = Unused /\ start = Unused /\ end = Unused

RECURSIVE SumViajes(_)
SumViajes(rows) ==
    IF rows = <<>> THEN 0 ELSE Head(rows).viajes + SumViajes(Tail(rows))

KeyOf(row, keys) == [i \in DOMAIN keys |-> row[keys[i]]]

GroupRow(keys, key, total) ==
    [c \in Range(keys) \cup {"viajes"} |->
        IF c = "viajes" THEN total
        ELSE key[CHOOSE i \in DOMAIN keys : keys[i] = c]]

\* As groupby_sum, but each group keeps its first row's viajes.
GroupByFirstOnly(df, keys) ==
    LET sorted == SortKeys({ KeyOf(r, keys) : r \in Range(df.rows) })
        first(k) == CHOOSE i \in DOMAIN df.rows :
                       /\ KeyOf(df.rows[i], keys) = k
                       /\ \A j \in 1..(i-1) : KeyOf(df.rows[j], keys) # k
    IN  DataFrame(keys \o <<"viajes">>,
                  [i \in DOMAIN sorted |->
                      GroupRow(keys, sorted[i], df.rows[first(sorted[i])].viajes)])

\* df.groupby(keys)["viajes"].sum().reset_index(): one row per observed key
\* tuple, in ascending key order, carrying the sum of the group's viajes.
groupby_sum(df, keys) ==
    IF df.err # "" THEN df
    ELSE IF keys = <<>> THEN Raise("ValueError")
    ELSE IF \E c \in Range(keys) \cup {"viajes"} : c \notin Range(df.columns)
         THEN Raise("KeyError")
    ELSE LET sorted == SortKeys({ KeyOf(r, keys) : r \in Range(df.rows) })
             group(k) == SelectSeq(df.rows, LAMBDA r : KeyOf(r, keys) = k)
         IN  DataFrame(keys \o <<"viajes">>,
                       [i \in DOMAIN sorted |->
                           GroupRow(keys, sorted[i], SumViajes(group(sorted[i])))])

\* df.rename(columns=mapping); mapping is a function on the renamed columns.
rename(df, mapping) ==
    LET ren(c) == IF c \in DOMAIN mapping THEN mapping[c] ELSE c
    IN  IF df.err # "" THEN df
        ELSE DataFrame(
               [i \in DOMAIN df.columns |-> ren(df.columns[i])],
               [i \in DOMAIN df.rows |->
                  [c \in { ren(x) : x \in DOMAIN df.rows[i] } |->
                     df.rows[i][CHOOSE x \in DOMAIN df.rows[i] : ren(x) = c]]])

\* pd.concat([a, b]) of two frames with the same columns.
concat(a, b) ==
    IF a.err # "" THEN a
    ELSE IF b.err # "" THEN b
    ELSE DataFrame(a.columns, a.rows \o b.rows)

----------------------------------------------------------------------------
(* Mobility reducers                                                       *)

MunicipioColumn(_type) ==
    IF _type = "origen" THEN "municipio_origen" ELSE "municipio_destino"
MunicipioNameColumn(_type) ==
    IF _type = "origen" THEN "municipio_origen_name" ELSE "municipio_destino_name"

group_by_municipality_type(df, _type) ==
    groupby_sum(df, <<MunicipioColumn(_type), MunicipioNameColumn(_type)>>)

\* As group_by_municipality, but without the destination role.
OriginOnly(df) ==
    groupby_sum(
        rename(group_by_municipality_type(df, "origen"),
               [c \in {"municipio_origen", "municipio_origen_name"} |->
                   IF c = "municipio_origen" THEN "municipio" ELSE "municipio_name"]),
        <<"municipio", "municipio_name">>)

group_by_municipality(df) ==
    LET origin_df ==
            rename(group_by_municipality_type(df, "origen"),
                   [c \in {"municipio_origen", "municipio_origen_name"} |->
                       IF c = "municipio_origen" THEN "municipio" ELSE "municipio_name"])
        destination_df ==
            rename(group_by_municipality_type(df, "destino"),
                   [c \in {"municipio_destino", "municipio_destino_name"} |->
                       IF c = "municipio_destino" THEN "municipio" ELSE "municipio_name"])
    IN  groupby_sum(concat(origin_df, destination_df), <<"municipio", "municipio_name">>)

\* As group_by_origin_destination_directed, with first() in place of sum().
DirectedFirstOnly(df) ==
    GroupByFirstOnly(df, <<"municipio_origen", "municipio_destino">>)

group_by_origin_destination_directed(df) ==
    groupby_sum(df, <<"municipio_origen", "municipio_destino">>)

\* pd.DataFrame(list of dicts): the columns are the dicts' keys, and an empty
\* list gives a frame with no columns at all.
DataFrameFromRecords(columns, records) ==
    IF records = <<>> THEN DataFrame(<<>>, <<>>) ELSE DataFrame(columns, records)

UndirectedEdges(directed_edges_df) ==
    [i \in DOMAIN directed_edges_df.rows |->
        LET node == directed_edges_df.rows[i]
            ms   == sorted2(node.municipio_origen, node.municipio_destino)
        IN  [municipio_1 |-> ms[1], municipio_2 |-> ms[2], viajes |-> node.viajes]]

group_by_origin_destination_undirected(df) ==
    LET directed_edges_df == group_by_origin_destination_directed(df)
    IN  IF directed_edges_df.err # "" THEN directed_edges_df
        ELSE groupby_sum(
               DataFrameFromRecords(<<"municipio_1", "municipio_2", "viajes">>,
                                    UndirectedEdges(directed_edges_df)),
               <<"municipio_1", "municipio_2">>)

----------------------------------------------------------------------------
(* Inputs of the reducers                                                  *)

MaxRows == 3

\* Municipality codes (with one of another length, so that string order and
\* numeric order differ) and their names.
Code001 == <<"0", "0", "1">>
Code002 == <<"0", "0", "2">>
Code01  == <<"0", "1">>
Municipalities ==
    { [code |-> Code001, name |-> <<"A">>],
      [code |-> Code002, name |-> <<"B">>],
      [code |-> Code01,  name |-> <<"C">>] }
Codes == { m.code : m \in Municipalities }
Viajes == {3, 5}

TripColumns ==
    <<"municipio_origen", "municipio_origen_name",
      "municipio_destino", "municipio_destino_name", "viajes">>

Trip(o, d, v) ==
    [municipio_origen |-> o.code, municipio_origen_name |-> o.name,
     municipio_destino |-> d.code, municipio_destino_name |-> d.name,
     viajes |-> v]
Mun001 == [code |-> Code001, name |-> <<"A">>]
Mun002 == [code |-> Code002, name |-> <<"B">>]
Mun01  == [code |-> Code01,  name |-> <<"C">>]

\* The rows a trip table is made of: trips between any two municipalities, and
\* rows that record no trip at all out of one of them.
TripRows ==
    { Trip(o, d, v) : o \in Municipalities, d \in Municipalities, v \in Viajes }
    \cup { Trip(Mun01, d, 0) : d \in Municipalities }

SeqsUpTo(S, n) == UNION { [1..k -> S] : k \in 0..n }

InitReducers ==
    /\ pc = "input"
    /\ mobility_df \in { DataFrame(TripColumns, rows) : rows \in SeqsUpTo(TripRows, MaxRows) }
    /\ result = Unused /\ result2 = Unused
    /\ platform = Unused /\ CatalogUnused /\ FilesUnused /\ FilterUnused

CallMunicipalityType ==
    /\ pc = "input"
    /\ \E _type \in {"origen", "destino"} :
          /\ pc' = _type
          /\ result' = group_by_municipality_type(mobility_df, _type)
    /\ UNCHANGED <<platform, reducerVars, catalogVars, fileVars, filterVars>>

CallMunicipality ==
    /\ pc = "input"
    /\ pc' = "municipality"
    /\ result' = group_by_municipality(mobility_df)
    /\ UNCHANGED <<platform, reducerVars, catalogVars, fileVars, filterVars>>

CallDirected ==
    /\ pc = "input"
    /\ pc' = "directed"
    /\ result' = group_by_origin_destination_directed(mobility_df)
    /\ UNCHANGED <<platform, reducerVars, catalogVars, fileVars, filterVars>>

CallUndirected ==
    /\ pc = "input"
    /\ pc' = "undirected"
    /\ result' = group_by_origin_destination_undirected(mobility_df)
    /\ UNCHANGED <<platform, reducerVars, catalogVars, fileVars, filterVars>>

\* The reducer applied to the frame it has just returned.
CallUndirectedAgain ==
    /\ pc = "undirected"
    /\ result.err = ""
    /\ pc' = "undirected_twice"
    /\ result2' = group_by_origin_destination_undirected(result)
    /\ UNCHANGED <<result, platform, mobility_df, catalogVars, fileVars, filterVars>>

NextReducers ==
    \/ CallMunicipalityType
    \/ CallMunicipality
    \/ CallDirected
    \/ CallUndirected
    \/ CallUndirectedAgain

SpecReducers == InitReducers /\ [][NextReducers]_vars

----------------------------------------------------------------------------
(* Properties of the reducers                                              *)

\* The trips of the input table from code o to code d.
RECURSIVE Flow(_, _, _)
Flow(rows, o, d) ==
    IF rows = <<>> THEN 0
    ELSE (IF Head(rows).municipio_origen = o /\ Head(rows).municipio_destino = d
          THEN Head(rows).viajes ELSE 0) + Flow(Tail(rows), o, d)

RECURSIVE OutFlow(_, _)
OutFlow(rows, m) ==
    IF rows = <<>> THEN 0
    ELSE (IF Head(rows).municipio_origen = m.code
             /\ Head(rows).municipio_origen_name = m.name
          THEN Head(rows).viajes ELSE 0) + OutFlow(Tail(rows), m)

RECURSIVE InFlow(_, _)
InFlow(rows, m) ==
    IF rows = <<>> THEN 0
    ELSE (IF Head(rows).municipio_destino = m.code
             /\ Head(rows).municipio_destino_name = m.name
          THEN Head(rows).viajes ELSE 0) + InFlow(Tail(rows), m)

Connects(rows, A, B) ==
    \E r \in Range(rows) :
        {r.municipio_origen, r.municipio_destino} = {A, B}

ExampleTrips == << Trip(Mun001, Mun002, 5), Trip(Mun002, Mun001, 3) >>

C2_DirectedConservesFlow ==
    pc = "directed" =>
        /\ result.err = ""
        /\ SumViajes(result.rows) = SumViajes(mobility_df.rows)
        /\ \A A \in Codes, B \in Codes :
              (\E r \in Range(mobility_df.rows) :
                  r.municipio_origen = A /\ r.municipio_destino = B) =>
                  LET hits == { i \in DOMAIN result.rows :
                                  /\ result.rows[i].municipio_origen = A
                                  /\ result.rows[i].municipio_destino = B }
                  IN  /\ Cardinality(hits) = 1
                      /\ \A i \in hits :
                            result.rows[i].viajes = Flow(mobility_df.rows, A, B)

\* Both directions of a pair are present, one of them in two input rows.
C2_Witness ==
    /\ pc = "directed"
    /\ Len(mobility_df.rows) = 3
    /\ Flow(mobility_df.rows, Code001, Code002) = 8
    /\ Flow(mobility_df.rows, Code002, Code001) = 3
    /\ Len(result.rows) = 2

\* C3: group_by_origin_destination_undirected applied to its own output
\* returns what it returned the first time.
C3_UndirectedIdempotent ==
    pc = "undirected_twice" => result2 = result

Occurs(rows, m) ==
    \E r \in Range(rows) :
        \/ r.municipio_origen = m.code /\ r.municipio_origen_name = m.name
        \/ r.municipio_destino = m.code /\ r.municipio_destino_name = m.name

\* C4: group_by_municipality returns exactly one row per municipality (code and
\* name) that occurs as origin or as destination, carrying its origin-role sum
\* plus its destination-role sum, an absent role counting 0; no other rows.
C4_MunicipalityTotals ==
    pc = "municipality" =>
        /\ result.err = ""
        /\ \A m \in Municipalities :
              LET hits == { i \in DOMAIN result.rows :
                              /\ result.rows[i].municipio = m.code
                              /\ result.rows[i].municipio_name = m.name }
              IN  IF Occurs(mobility_df.rows, m)
                  THEN /\ Cardinality(hits) = 1
                       /\ \A i \in hits :
                             result.rows[i].viajes =
                                 OutFlow(mobility_df.rows, m) + InFlow(mobility_df.rows, m)
                  ELSE hits = {}
        /\ Len(result.rows) =
              Cardinality({ m \in Municipalities : Occurs(mobility_df.rows, m) })

\* One municipality is only ever an origin, another is both origin and
\* destination, and a third occurs only as the origin of a row without trips.
C4_Witness ==
    /\ pc = "municipality"
    /\ OutFlow(mobility_df.rows, Mun001) > 0 /\ ~Connects(mobility_df.rows, Code001, Code001)
    /\ \A r \in Range(mobility_df.rows) : r.municipio_destino = Code002
    /\ OutFlow(mobility_df.rows, Mun002) > 0
    /\ Occurs(mobility_df.rows, Mun01)
    /\ Len(result.rows) = 3
    /\ \E i \in DOMAIN result.rows :
          result.rows[i].municipio = Code01 /\ result.rows[i].viajes = 0

----------------------------------------------------------------------------
(* Dataset catalog builder                                                 *)

Sep(os) == IF os = "nt" THEN "\\" ELSE "/"
IsSep(os, ch) == ch = "/" \/ (os = "nt" /\ ch = "\\")

\* os.path.join(a, b) for paths without a drive letter.
os_path_join(os, a, b) ==
    IF b # <<>> /\ IsSep(os, b[1]) THEN b
    ELSE IF a = <<>> \/ IsSep(os, a[Len(a)]) THEN a \o b
    ELSE a \o <<Sep(os)>> \o b

\* str.split(s, c): the segments of s between the occurrences of c.
RECURSIVE Split(_, _)
Split(s, c) ==
    IF \A i \in DOMAIN s : s[i] # c THEN <<s>>
    ELSE LET i == CHOOSE k \in DOMAIN s : s[k] = c /\ \A j \in 1..(k-1) : s[j] # c
         IN  <<SubSeq(s, 1, i-1)>> \o Split(SubSeq(s, i+1, Len(s)), c)

\* sorted(filenames)
RECURSIVE SortStrings(_)
SortStrings(S) ==
    IF S = {} THEN <<>>
    ELSE LET m == CHOOSE x \in S : \A y \in S \ {x} : StrLess(x, y)
         IN  <<m>> \o SortStrings(S \ {m})

\* The roles with the last two exchanged.
file_types_swapped == <<"barrios", "municipios", "mun_barrios">>

file_types == <<"barrios", "mun_barrios", "municipios">>

\* os.path.join(top, name, ...) down the directory names of rel, as os.walk
\* builds the path of a directory it descends to.
RECURSIVE DirPath(_, _, _)
DirPath(os, top, rel) ==
    IF rel = <<>> THEN top
    ELSE DirPath(os, os_path_join(os, top, Head(rel)), Tail(rel))

\* The files that exist, by the path os.walk reaches them at, with their sizes.
ActualFiles(os, top, t) ==
    UNION { { [path |-> os_path_join(os, DirPath(os, top, rel), f),
               size |-> t.dirs[rel][f]] : f \in DOMAIN t.dirs[rel] }
            : rel \in DOMAIN t.dirs }

Exists(os, top, t, p) == \E a \in ActualFiles(os, top, t) : a.path = p
getsize(os, top, t, p) == (CHOOSE a \in ActualFiles(os, top, t) : a.path = p).size

Catalog(entries) == [err |-> "", entries |-> entries]
CatalogError(e) == [err |-> e, entries |-> <<>>]

\* The body of the os.walk loop for one leaf directory: the three entries it
\* appends, or the exception it raises.
LeafEntries(os, top, t, dirpath, filenames) ==
    LET segments == Split(dirpath, "\\")
        year_month == segments[Len(segments)]
        ym == Split(year_month, "-")
        dataset_dir == os_path_join(os, top, year_month)
        names == SortStrings(filenames)
        file_paths == [i \in DOMAIN names |-> os_path_join(os, dataset_dir, names[i])]
    IN  IF Len(ym) # 2 THEN CatalogError("ValueError")
        ELSE IF \E i \in DOMAIN file_paths : ~Exists(os, top, t, file_paths[i])
             THEN CatalogError("FileNotFoundError")
        ELSE IF Len(file_paths) < Len(file_types) THEN CatalogError("IndexError")
        ELSE Catalog([i \in DOMAIN file_types |->
                        [year |-> ym[1], month |-> ym[2], type |-> file_types[i],
                         path |-> file_paths[i],
                         size_in_bytes |-> getsize(os, top, t, file_paths[i])]])

\* os.walk yields every directory of the tree; one that has subdirectories is
\* skipped, so the loop body runs on the leaf directories, in the order the
\* directory listings have them: walk gives that order.
RECURSIVE WalkLeaves(_, _, _, _, _)
WalkLeaves(os, top, t, walk, acc) ==
    IF walk = <<>> THEN Catalog(acc)
    ELSE LET rel == Head(walk)
             leaf == LeafEntries(os, top, t, DirPath(os, top, rel), DOMAIN t.dirs[rel])
         IN  IF leaf.err # "" THEN leaf
             ELSE WalkLeaves(os, top, t, Tail(walk), acc \o leaf.entries)

get_datasets_names(os, top, t, walk) ==
    IF ~t.exists THEN CatalogError("Exception")
    ELSE WalkLeaves(os, top, t, walk, <<>>)

----------------------------------------------------------------------------
(* Inputs of the catalog builder                                           *)

a_barrios_csv == <<"a", "_", "b", "a", "r", "r", "i", "o", "s", ".", "c", "s", "v">>
b_municipios_csv ==
    <<"b", "_", "m", "u", "n", "i", "c", "i", "p", "i", "o", "s", ".", "c", "s", "v">>
c_mun_barrios_csv ==
    <<"c", "_", "m", "u", "n", "_", "b", "a", "r", "r", "i", "o", "s", ".", "c", "s", "v">>
d_csv == <<"d", ".", "c", "s", "v">>
FileNames == {a_barrios_csv, b_municipios_csv, c_mun_barrios_csv, d_csv}

Dir2023_01 == <<"2", "0", "2", "3", "-", "0", "1">>
Dir2023_02 == <<"2", "0", "2", "3", "-", "0", "2">>
PeriodNames == {Dir2023_01, Dir2023_02}

\* The leaf directories a tree can have, by their directory names below the
\* root: the periods right under the root, as documented, and a period one
\* level further down.  The root itself is a leaf when it has no subdirectory.
Below == <<"x">>
LeafDirs == { <<d>> : d \in PeriodNames } \cup { <<Below, Dir2023_01>> }

\* The listing of a directory: some of the file names, each with its size.
\* Every file of a tree has a size of its own.
FileNo(f) ==
    CASE f = a_barrios_csv -> 1 [] f = b_municipios_csv -> 2
      [] f = c_mun_barrios_csv -> 3 [] f = d_csv -> 4
LeafNo(rel) ==
    CASE rel = <<Dir2023_01>> -> 1 [] rel = <<Dir2023_02>> -> 2
      [] rel = <<Below, Dir2023_01>> -> 3
Listing(rel, S) == [f \in S |-> 10 * FileNo(f) + LeafNo(rel)]
Listings(rel) == { Listing(rel, S) : S \in SUBSET FileNames }

Trees ==
    { [exists |-> TRUE, dirs |-> ds] :
        ds \in UNION { { d \in [L -> UNION { Listings(rel) : rel \in L }] :
                            \A rel \in L : d[rel] \in Listings(rel) }
                        : L \in (SUBSET LeafDirs) \ {{}} } }
    \cup { [exists |-> TRUE, dirs |-> [rel \in {<<>>} |-> [f \in S |-> FileNo(f)]]] :
             S \in SUBSET FileNames }
    \cup { [exists |-> FALSE, dirs |-> [rel \in {} |-> <<>>]] }

Orders(S) == { w \in [1..Cardinality(S) -> S] : Range(w) = S }

InitCatalog ==
    /\ pc = "input"
    /\ platform \in {"nt", "posix"}
    /\ root \in { <<"D">>, <<Sep(platform), "D">>, Dir2023_01 }
    /\ tree \in Trees
    /\ datasets_names = Unused
    /\ result = Unused /\ ReducersUnused /\ FilesUnused /\ FilterUnused

CallGetDatasetsNames ==
    /\ pc = "input"
    /\ pc' = "catalog"
    /\ \E walk \in Orders(DOMAIN tree.dirs) :
          datasets_names' = get_datasets_names(platform, root, tree, walk)
    /\ UNCHANGED <<result, platform, root, tree, reducerVars, fileVars, filterVars>>

NextCatalog == CallGetDatasetsNames

SpecCatalog == InitCatalog /\ [][NextCatalog]_vars

----------------------------------------------------------------------------
(* Properties of the catalog builder                                       *)

\* The path of a directory, from the names on the way down from the root.
RECURSIVE PathBelow(_, _)
PathBelow(path, rel) ==
    IF rel = <<>> THEN path
    ELSE PathBelow(path \o <<Sep(platform)>> \o Head(rel), Tail(rel))

\* The leaf directories os.walk reaches, each with its path and its listing.
Leaves ==
    { [path |-> PathBelow(root, rel), listing |-> tree.dirs[rel]] : rel \in DOMAIN tree.dirs }

FileIn(leaf, f) == leaf.path \o <<Sep(platform)>> \o f

EntriesOf(leaf) ==
    { i \in DOMAIN datasets_names.entries :
        \E f \in FileNames : datasets_names.entries[i].path = FileIn(leaf, f) }

\* The position of f among the names of S in lexicographic order.
Rank(f, S) == Cardinality({ g \in S : StrLess(g, f) }) + 1

Roles == <<"barrios", "mun_barrios", "municipios">>

\* C5: a catalog returned by get_datasets_names holds, for each leaf period
\* directory, exactly three entries, one per role: the first, second and third
\* file name in lexicographic order get the roles barrios, mun_barrios and
\* municipios, each entry with that file's own path and size, however many
\* files the directory holds.
C5_ThreeEntriesPerPeriod ==
    (pc = "catalog" /\ datasets_names.err = "") =>
        /\ Len(datasets_names.entries) = 3 * Cardinality(Leaves)
        /\ \A leaf \in Leaves :
              /\ Cardinality(EntriesOf(leaf)) = 3
              /\ \A k \in 1..3 :
                    \E f \in DOMAIN leaf.listing :
                        /\ Rank(f, DOMAIN leaf.listing) = k
                        /\ \E i \in EntriesOf(leaf) :
                              /\ datasets_names.entries[i].type = Roles[k]
                              /\ datasets_names.entries[i].path = FileIn(leaf, f)
                              /\ datasets_names.entries[i].size_in_bytes = leaf.listing[f]

\* A catalog of two periods, one holding four files and one holding three,
\* where files of the same name differ in size: there C5 holds.
C5_FlatCatalog ==
    /\ pc = "catalog" /\ datasets_names.err = ""
    /\ DOMAIN tree.dirs = { <<d>> : d \in PeriodNames }
    /\ DOMAIN tree.dirs[<<Dir2023_01>>] = FileNames
    /\ DOMAIN tree.dirs[<<Dir2023_02>>] = FileNames \ {a_barrios_csv}
    /\ tree.dirs[<<Dir2023_01>>][b_municipios_csv] # tree.dirs[<<Dir2023_02>>][b_municipios_csv]
    /\ C5_ThreeEntriesPerPeriod

\* C5 for the trees whose period directories all lie right under the root.
C5_FlatTrees ==
    (\A rel \in DOMAIN tree.dirs : Len(rel) = 1) => C5_ThreeEntriesPerPeriod

Leaf2023_01 ==
    [path |-> PathBelow(root, <<Dir2023_01>>), listing |-> tree.dirs[<<Dir2023_01>>]]

ScenarioCataloged ==
    /\ pc = "catalog" /\ datasets_names.err = ""
    /\ <<Dir2023_01>> \in DOMAIN tree.dirs
    /\ DOMAIN tree.dirs[<<Dir2023_01>>] = {a_barrios_csv, b_municipios_csv, c_mun_barrios_csv}

RoleOf(f, role) ==
    \E i \in EntriesOf(Leaf2023_01) :
        /\ datasets_names.entries[i].type = role
        /\ datasets_names.entries[i].path = FileIn(Leaf2023_01, f)

Year2023 == <<"2", "0", "2", "3">>
Month01 == <<"0", "1">>

C6_WitnessPosix ==
    /\ ScenarioCataloged /\ platform = "posix"
    /\ \E i \in EntriesOf(Leaf2023_01) : datasets_names.entries[i].year # Year2023

----------------------------------------------------------------------------
(* Grouped aggregator                                                      *)

Digits == {"0", "1", "2", "3", "4", "5", "6", "7", "8", "9"}

\* int(s) for the strings of a csv cell: decimal digits, and nothing else parses.
IsInt(s) == s # <<>> /\ \A i \in DOMAIN s : s[i] \in Digits
RECURSIVE ParseInt(_)
ParseInt(s) ==
    IF s = <<>> THEN 0
    ELSE 10 * ParseInt(SubSeq(s, 1, Len(s) - 1)) + (Ord(s[Len(s)]) - Ord("0"))

\* pd.read_csv(path, dtype=str): every cell is a string.
read_csv(fs, path) ==
    IF path \notin DOMAIN fs THEN Raise("FileNotFoundError")
    ELSE DataFrame(fs[path].columns, fs[path].rows)

\* As astype_viajes_int, but a cell that does not parse becomes 0.
AstypeCoerce(df) ==
    IF df.err # "" THEN df
    ELSE DataFrame(df.columns,
                   [i \in DOMAIN df.rows |->
                       [df.rows[i] EXCEPT !.viajes =
                           IF IsInt(@) THEN ParseInt(@) ELSE 0]])

\* df.astype({"viajes": "int"})
astype_viajes_int(df) ==
    IF df.err # "" THEN df
    ELSE IF "viajes" \notin Range(df.columns) THEN Raise("KeyError")
    ELSE IF \E r \in Range(df.rows) : ~IsInt(r.viajes) THEN Raise("ValueError")
    ELSE DataFrame(df.columns,
                   [i \in DOMAIN df.rows |->
                       [df.rows[i] EXCEPT !.viajes = ParseInt(@)]])

Outcome(df, reads) == [df |-> df, loaded |-> reads]

\* The loop of full_datasets_groupby from position i on; an exception raised
\* in the body ends the call.
RECURSIVE GroupbyLoop(_, _, _, _, _, _)
GroupbyLoop(paths, fs, keys, i, day_full_df, reads) ==
    IF i > Len(paths) THEN Outcome(day_full_df, reads)
    ELSE LET df == astype_viajes_int(read_csv(fs, paths[i]))
             day_df_i == groupby_sum(df, keys)
         IN  IF day_df_i.err # "" THEN Outcome(day_df_i, reads \o <<paths[i]>>)
             ELSE GroupbyLoop(paths, fs, keys, i + 1,
                              concat(day_full_df, day_df_i), reads \o <<paths[i]>>)

\* As full_datasets_groupby, but the concatenated table is grouped once more.
GroupbyMerged(paths, fs, keys) ==
    LET out == GroupbyLoop(paths, fs, keys, 1, DataFrame(keys \o <<"viajes">>, <<>>), <<>>)
    IN  Outcome(groupby_sum(out.df, keys), out.loaded)

full_datasets_groupby(paths, fs, keys) ==
    GroupbyLoop(paths, fs, keys, 1, DataFrame(keys \o <<"viajes">>, <<>>), <<>>)

----------------------------------------------------------------------------
(* Inputs of the grouped aggregator                                        *)

MaxCatalog == 3

Day01 == <<"0", "1">>
Day02 == <<"0", "2">>
CsvColumns == <<"day", "month", "municipio_origen", "viajes">>
CsvRow(d, o, v) == [day |-> d, month |-> <<"0", "1">>, municipio_origen |-> o, viajes |-> v]

\* The rows of the cataloged files; one has a trip count that is no integer.
CsvRows ==
    { CsvRow(Day01, Code001, <<"3">>), CsvRow(Day01, Code002, <<"1", "2">>),
      CsvRow(Day02, Code001, <<"5">>), CsvRow(Day01, Code001, <<"x">>) }

CsvFiles == { [columns |-> CsvColumns, rows |-> rows] : rows \in SeqsUpTo(CsvRows, 2) }

\* The path of the i-th cataloged file.
PathNo(i) == <<"D", "\\", "f">> \o <<CodePoints[Ord("0") + i]>> \o <<".", "c", "s", "v">>

KeySets == { <<"day">>, <<"day", "municipio_origen">>, <<"municipio">> }

InitAggregate ==
    /\ pc = "input"
    /\ \E n \in 0..MaxCatalog :
          /\ datasets_names_df = [i \in 1..n |-> PathNo(i)]
          /\ \E present \in SUBSET { PathNo(i) : i \in 1..n } :
                files \in [present -> CsvFiles]
    /\ by \in KeySets
    /\ loaded = Unused /\ datasets_paths_df = Unused /\ test_data = Unused
    /\ result = Unused /\ platform = Unused
    /\ ReducersUnused /\ CatalogUnused /\ FilterUnused

CallFullDatasetsGroupby ==
    /\ pc = "input"
    /\ pc' = "groupby"
    /\ LET out == full_datasets_groupby(datasets_names_df, files, by)
       IN  result' = out.df /\ loaded' = out.loaded
    /\ UNCHANGED <<platform, files, datasets_names_df, by, datasets_paths_df, test_data,
                   reducerVars, catalogVars, filterVars>>

NextAggregate == CallFullDatasetsGroupby

SpecAggregate == InitAggregate /\ [][NextAggregate]_vars

----------------------------------------------------------------------------
(* Properties of the grouped aggregator                                    *)

Present(i) == datasets_names_df[i] \in DOMAIN files
RowsOfFile(i) == files[datasets_names_df[i]].rows
KeysOfFile(i) == { KeyOf(r, by) : r \in Range(RowsOfFile(i)) }

RECURSIVE KeysUpTo(_)
KeysUpTo(i) == IF i = 0 THEN 0 ELSE KeysUpTo(i - 1) + Cardinality(KeysOfFile(i))

RECURSIVE FileSum(_, _)
FileSum(rows, key) ==
    IF rows = <<>> THEN 0
    ELSE (IF KeyOf(Head(rows), by) = key THEN ParseInt(Head(rows).viajes) ELSE 0)
         + FileSum(Tail(rows), key)

\* The rows of the result that come after those of the files before file i.
Segment(i) == SubSeq(result.rows, KeysUpTo(i - 1) + 1, KeysUpTo(i))

\* C7: the table returned by full_datasets_groupby is the concatenation, in
\* catalog order, of each file's own grouped sums: it has as many rows as the
\* files have distinct key tuples, summed over the files, and a key tuple that
\* two files share keeps one row per file, each with that file's sum.
C7_ConcatenationPerFile ==
    (pc = "groupby" /\ result.err = "") =>
        /\ Len(result.rows) = KeysUpTo(Len(datasets_names_df))
        /\ \A i \in DOMAIN datasets_names_df :
              /\ { KeyOf(r, by) : r \in Range(Segment(i)) } = KeysOfFile(i)
              /\ \A r \in Range(Segment(i)) :
                    r.viajes = FileSum(RowsOfFile(i), KeyOf(r, by))

\* Two files share a key tuple with different sums, and one of them has two
\* rows of that key.
C7_Witness ==
    /\ pc = "groupby" /\ result.err = ""
    /\ Len(datasets_names_df) >= 2
    /\ by = <<"day">>
    /\ RowsOfFile(1) = << CsvRow(Day01, Code001, <<"3">>), CsvRow(Day01, Code002, <<"1", "2">>) >>
    /\ RowsOfFile(2) = << CsvRow(Day01, Code001, <<"3">>), CsvRow(Day02, Code001, <<"5">>) >>
    /\ Len(result.rows) >= 3
    /\ result.rows[1].viajes = 15 /\ result.rows[2].viajes = 3

BadFile(i) == Present(i) /\ \E r \in Range(RowsOfFile(i)) : ~IsInt(r.viajes)

\* C8: when a file of the catalog has a trip count that does not parse as an
\* integer, full_datasets_groupby ends in an error and returns no table,
\* wherever the file stands in the catalog, and no file after it is loaded.
C8_BadFileAborts ==
    pc = "groupby" =>
        \A i \in DOMAIN datasets_names_df :
            BadFile(i) =>
                /\ result.err # ""
                /\ result.rows = <<>> /\ result.columns = <<>>
                /\ \A j \in DOMAIN datasets_names_df :
                      j > i => datasets_names_df[j] \notin Range(loaded)

\* The bad file is the second of three; the first was grouped without error.
C8_Witness ==
    /\ pc = "groupby"
    /\ Len(datasets_names_df) = 3
    /\ by = <<"day">>
    /\ Present(1) /\ ~BadFile(1) /\ RowsOfFile(1) # <<>>
    /\ BadFile(2) /\ Present(3)
    /\ loaded = << PathNo(1), PathNo(2) >>
    /\ result.err = "ValueError"

----------------------------------------------------------------------------
(* Zero-filtering exporter                                                 *)

\* os.path.basename(p): what follows the last separator of p.
RECURSIVE os_path_basename(_, _)
os_path_basename(os, p) ==
    IF \A i \in DOMAIN p : ~IsSep(os, p[i]) THEN p
    ELSE os_path_basename(os, Tail(p))

\* "".join(parts)
RECURSIVE StrJoin(_)
StrJoin(parts) == IF parts = <<>> THEN <<>> ELSE Head(parts) \o StrJoin(Tail(parts))

\* str(n) for n >= 0, as to_csv writes an integer cell.
RECURSIVE FormatInt(_)
FormatInt(n) ==
    IF n < 10 THEN <<CodePoints[Ord("0") + n]>>
    ELSE FormatInt(n \div 10) \o <<CodePoints[Ord("0") + (n % 10)]>>

test_data_dir == <<".", "\\", "t", "e", "s", "t", "-", "d", "a", "t", "a">>

\* The path full_datasets_filter_zeros stores the filtered copy of dataset_path at.
filtered_filepath(os, dataset_path) ==
    LET basename == Split(os_path_basename(os, dataset_path), ".")
        name == StrJoin(SubSeq(basename, 1, Len(basename) - 1))
        extension == basename[Len(basename)]
    IN  os_path_join(os, test_data_dir,
                     name \o <<"_", "f", "i", "l", "t", "e", "r", "e", "d", ".">> \o extension)

\* filtered_df.drop(columns=["month", "index"]).to_csv(filepath, index=False):
\* the text of the file written, its cells strings again.
FilteredCsv(df) ==
    LET filtered_df == SelectSeq(df.rows, LAMBDA r : r.viajes > 0)
        kept == SelectSeq(df.columns, LAMBDA c : c # "month")
    IN  [columns |-> kept,
         rows |-> [i \in DOMAIN filtered_df |->
                     [c \in Range(kept) |->
                        IF c = "viajes" THEN FormatInt(filtered_df[i].viajes)
                        ELSE filtered_df[i][c]]]]

NoneValue == DataFrame(<<>>, <<>>)
Written(status, out) == [status |-> status, test_data |-> out]

\* The loop of full_datasets_filter_zeros from position i on; out is what the
\* output directory holds so far.
RECURSIVE FilterZerosLoop(_, _, _, _, _)
FilterZerosLoop(os, paths, fs, i, out) ==
    IF i > Len(paths) THEN Written(NoneValue, out)
    ELSE LET df == astype_viajes_int(read_csv(fs, paths[i]))
             filepath == filtered_filepath(os, paths[i])
         IN  IF df.err # "" THEN Written(df, out)
             ELSE IF "month" \notin Range(df.columns) THEN Written(Raise("KeyError"), out)
             ELSE FilterZerosLoop(os, paths, fs, i + 1,
                    [f \in DOMAIN out \cup {filepath} |->
                        IF f = filepath THEN FilteredCsv(df) ELSE out[f]])

full_datasets_filter_zeros(os, paths, fs) ==
    FilterZerosLoop(os, paths, fs, 1, [f \in {} |-> <<>>])

----------------------------------------------------------------------------
(* Inputs of the exporter                                                  *)

MaxExport == 2

a_b_csv == <<"a", ".", "b", ".", "c", "s", "v">>
ab_csv  == <<"a", "b", ".", "c", "s", "v">>
ExportNames == {b_municipios_csv, a_b_csv, ab_csv}

\* The paths a catalog of the tree under D has for these names.
ExportPaths(os) ==
    { <<"D">> \o <<Sep(os)>> \o d \o <<Sep(os)>> \o f : d \in PeriodNames, f \in ExportNames }

ExportRows ==
    { CsvRow(Day01, Code001, <<"0">>), CsvRow(Day01, Code001, <<"3">>),
      CsvRow(Day02, Code001, <<"1", "2">>), CsvRow(Day02, Code001, <<"x">>) }

ExportFiles == { [columns |-> CsvColumns, rows |-> rows] : rows \in SeqsUpTo(ExportRows, 2) }

InitExport ==
    /\ pc = "input"
    /\ platform \in {"nt", "posix"}
    /\ datasets_paths_df \in
          { w \in SeqsUpTo(ExportPaths(platform), MaxExport) :
              \A i \in DOMAIN w, j \in DOMAIN w : i # j => w[i] # w[j] }
    /\ files \in [Range(datasets_paths_df) -> ExportFiles]
    /\ test_data = [f \in {} |-> <<>>]
    /\ datasets_names_df = Unused /\ by = Unused /\ loaded = Unused
    /\ result = Unused
    /\ ReducersUnused /\ CatalogUnused /\ FilterUnused

CallFullDatasetsFilterZeros ==
    /\ pc = "input"
    /\ pc' = "filter_zeros"
    /\ LET out == full_datasets_filter_zeros(platform, datasets_paths_df, files)
       IN  result' = out.status /\ test_data' = out.test_data
    /\ UNCHANGED <<platform, files, datasets_names_df, by, loaded, datasets_paths_df,
                   reducerVars, catalogVars, filterVars>>

NextExport == CallFullDatasetsFilterZeros

SpecExport == InitExport /\ [][NextExport]_vars

----------------------------------------------------------------------------
(* Properties of the exporter                                              *)

\* The rows of a cataloged file with viajes > 0, without the month column.
PositiveRows(path) ==
    LET positive == SelectSeq(files[path].rows, LAMBDA r : ParseInt(r.viajes) > 0)
    IN  [i \in DOMAIN positive |->
            [c \in {"day", "municipio_origen", "viajes"} |-> positive[i][c]]]

\* C10: after full_datasets_filter_zeros has gone through a catalog without
\* error, every cataloged path has its own output file: distinct paths are
\* written to distinct files, and the rows with viajes > 0 of each cataloged
\* file are in the output directory.
C10_OwnOutputPerPath ==
    (pc = "filter_zeros" /\ result.err = "") =>
        /\ Cardinality(DOMAIN test_data) = Cardinality(Range(datasets_paths_df))
        /\ \A i \in DOMAIN datasets_paths_df :
              \E f \in DOMAIN test_data :
                  test_data[f].rows = PositiveRows(datasets_paths_df[i])

\* Two cataloged files of different periods and of the same name.
C10_SameNameTwoPeriods ==
    /\ pc = "filter_zeros" /\ result.err = ""
    /\ Len(datasets_paths_df) = 2
    /\ os_path_basename(platform, datasets_paths_df[1])
          = os_path_basename(platform, datasets_paths_df[2])
    /\ Cardinality(DOMAIN test_data) = 1

----------------------------------------------------------------------------
(* Time-window filter                                                      *)

IsLeap(y) == (y % 4 = 0 /\ y % 100 # 0) \/ y % 400 = 0
DaysInMonth(y, m) ==
    IF m = 2 THEN (IF IsLeap(y) THEN 29 ELSE 28)
    ELSE IF m \in {4, 6, 9, 11} THEN 30 ELSE 31

RECURSIVE DaysBeforeMonth(_, _)
DaysBeforeMonth(y, m) ==
    IF m = 1 THEN 0 ELSE DaysBeforeMonth(y, m - 1) + DaysInMonth(y, m - 1)

\* The day count a timestamp is compared by (its value, in days).
DayNumber(y, m, d) ==
    365 * (y - 1) + ((y - 1) \div 4) - ((y - 1) \div 100) + ((y - 1) \div 400)
    + DaysBeforeMonth(y, m) + d

Timestamp(y, m, d) == [year |-> y, month |-> m, day |-> d, value |-> DayNumber(y, m, d)]
NaT == [year |-> 0, month |-> 0, day |-> 0, value |-> -1]

\* pd.Timestamp(s) for a string "YYYY-MM-DD"; NaT stands for the ValueError
\* raised on a string that is no date.
ParseTimestamp(s) ==
    LET parts == Split(s, "-")
    IN  IF Len(parts) # 3 \/ \E i \in 1..3 : ~IsInt(parts[i]) THEN NaT
        ELSE LET y == ParseInt(parts[1])
                 m == ParseInt(parts[2])
                 d == ParseInt(parts[3])
             IN  IF y < 1 \/ m \notin 1..12 \/ d \notin 1..DaysInMonth(y, m) THEN NaT
                 ELSE Timestamp(y, m, d)

\* day_df[mask]: the rows whose mask entry is true, in their order.
RECURSIVE BooleanIndex(_, _)
BooleanIndex(rows, mask) ==
    IF rows = <<>> THEN <<>>
    ELSE (IF Head(mask) THEN <<Head(rows)>> ELSE <<>>)
         \o BooleanIndex(Tail(rows), Tail(mask))

\* As filter_by_day, but the end day itself is left out.
FilterByDayEndExclusive(df, s, e) ==
    LET lo == ParseTimestamp(s)
        hi == ParseTimestamp(e)
    IN  IF lo = NaT \/ hi = NaT THEN Raise("ValueError")
        ELSE DataFrame(df.columns,
               BooleanIndex(df.rows,
                  [i \in DOMAIN df.rows |->
                      df.rows[i].day.value >= lo.value /\ df.rows[i].day.value < hi.value]))

filter_by_day(df, s, e) ==
    LET lo == ParseTimestamp(s)
        hi == ParseTimestamp(e)
    IN  IF lo = NaT \/ hi = NaT THEN Raise("ValueError")
        ELSE DataFrame(df.columns,
               BooleanIndex(df.rows,
                  [i \in DOMAIN df.rows |->
                      df.rows[i].day.value >= lo.value /\ df.rows[i].day.value <= hi.value]))

----------------------------------------------------------------------------
(* Inputs of the time-window filter                                        *)

MaxDays == 3

Date(y4, m2, d2) == y4 \o <<"-">> \o m2 \o <<"-">> \o d2
Y2022 == <<"2", "0", "2", "2">>
Y2023 == <<"2", "0", "2", "3">>
S2022_12_31 == Date(Y2022, <<"1", "2">>, <<"3", "1">>)
S2023_01_01 == Date(Y2023, <<"0", "1">>, <<"0", "1">>)
S2023_01_31 == Date(Y2023, <<"0", "1">>, <<"3", "1">>)
S2023_02_01 == Date(Y2023, <<"0", "2">>, <<"0", "1">>)
S2023_02_30 == Date(Y2023, <<"0", "2">>, <<"3", "0">>)

Bounds == {S2022_12_31, S2023_01_01, S2023_01_31, S2023_02_01, S2023_02_30}

Days == { Timestamp(2022, 12, 31), Timestamp(2023, 1, 1), Timestamp(2023, 1, 15),
          Timestamp(2023, 1, 31), Timestamp(2023, 2, 1) }

DayRows == { [day |-> t, viajes |-> v] : t \in Days, v \in Viajes }

InitFilter ==
    /\ pc = "input"
    /\ day_df \in { DataFrame(<<"day", "viajes">>, rows) : rows \in SeqsUpTo(DayRows, MaxDays) }
    /\ start \in Bounds
    /\ end \in Bounds
    /\ result = Unused /\ platform = Unused
    /\ ReducersUnused /\ CatalogUnused /\ FilesUnused

CallFilterByDay ==
    /\ pc = "input"
    /\ pc' = "filter_by_day"
    /\ result' = filter_by_day(day_df, start, end)
    /\ UNCHANGED <<platform, reducerVars, catalogVars, fileVars, filterVars>>

NextFilter == CallFilterByDay

SpecFilter == InitFilter /\ [][NextFilter]_vars

----------------------------------------------------------------------------
(* Properties of the time-window filter                                    *)

\* Calendar order of two dates, by year, then month, then day.
OnOrBefore(a, b) ==
    \/ a.year < b.year
    \/ a.year = b.year /\ a.month < b.month
    \/ a.year = b.year /\ a.month = b.month /\ a.day <= b.day

\* The calendar date a bound string of the model spells.
DateOf(s) ==
    CASE s = S2022_12_31 -> [year |-> 2022, month |-> 12, day |-> 31]
      [] s = S2023_01_01 -> [year |-> 2023, month |-> 1, day |-> 1]
      [] s = S2023_01_31 -> [year |-> 2023, month |-> 1, day |-> 31]
      [] s = S2023_02_01 -> [year |-> 2023, month |-> 2, day |-> 1]

WellFormed(s) == s # S2023_02_30

RECURSIVE RowsWithin(_, _, _)
RowsWithin(rows, lo, hi) ==
    IF rows = <<>> THEN <<>>
    ELSE (IF OnOrBefore(lo, Head(rows).day) /\ OnOrBefore(Head(rows).day, hi)
          THEN <<Head(rows)>> ELSE <<>>) \o RowsWithin(Tail(rows), lo, hi)

\* C9: for bounds start <= end, filter_by_day returns exactly the input rows
\* whose day d has start <= d <= end, both boundary days included, in their
\* original order, and no other row.
C9_InclusiveRange ==
    (/\ pc = "filter_by_day" /\ WellFormed(start) /\ WellFormed(end)
     /\ OnOrBefore(DateOf(start), DateOf(end))) =>
        /\ result.err = ""
        /\ result.rows = RowsWithin(day_df.rows, DateOf(start), DateOf(end))

\* The scenario of C9: rows on 2023-01-01, 2023-01-31 and 2023-02-01 filtered
\* to January keep the first two.
C9_Witness ==
    /\ pc = "filter_by_day"
    /\ start = S2023_01_01 /\ end = S2023_01_31
    /\ [i \in DOMAIN day_df.rows |-> day_df.rows[i].day]
          = << Timestamp(2023, 1, 31), Timestamp(2023, 2, 1), Timestamp(2023, 1, 1) >>
    /\ Len(result.rows) = 2
    /\ result.rows[1].day = Timestamp(2023, 1, 31)

====
